---- MODULE Spec2Model ----
(***************************************************************************)
(* chain-gateway: the gRPC gateway of src/main.rs (MyChainGateway) and the *)
(* chain provider of src/providers/solana.rs (SolanaProvider).  Both       *)
(* anchor a ContentRecord on the ledger with one signed transaction.       *)
(*                                                                         *)
(* main.rs declares neither `mod blockchain` nor `mod providers`: the      *)
(* gateway binary and the provider are two deployments of the same         *)
(* pipeline, never linked together.  `deployment` says which one runs.     *)
(***************************************************************************)
EXTENDS Integers, Sequences, FiniteSets, TLC

(***************************************************************************)
(* Bounds of the model.                                                    *)
(***************************************************************************)
\* concurrent request slots served by one deployment
NumReqs == 1
NumWorkers == 1
\* key pairs Keypair::new() can yield besides the payer's and the program's
MaxFreshKeys == 1
\* distinct blockhashes the ledger hands out
MaxBlockhash == 1
\* distinct signatures the ledger returns for confirmed transactions
MaxSigId == 2
MaxSlot == 1
MaxStrLen == 1

Reqs == 1..NumReqs

(***************************************************************************)
(* Keys.  A key pair is modelled by its public key.                        *)
(***************************************************************************)
SystemProgramId == 0
PayerKey == 1
ProgramId == 2
FreshKeys == 3..(2 + MaxFreshKeys)
\* Keypair::new() draws from the whole key space: a collision with a known
\* key is astronomically unlikely, not impossible
KeySpace == {PayerKey, ProgramId} \cup FreshKeys

None == [absent |-> TRUE]

(***************************************************************************)
(* Records and the Borsh payload (ProofInstruction::try_to_vec).           *)
(* A String is the tuple of its UTF-8 bytes.                               *)
(***************************************************************************)
ContentRecord(uid, created_at, hash, url) ==
    [uid |-> uid, created_at |-> created_at, hash |-> hash, url |-> url]

\* the records callers send
Records ==
    { ContentRecord(<<117>>, <<>>, <<104>>, <<97>>),
      ContentRecord(<<117>>, <<49>>, <<104>>, <<97, 98>>) }

\* a String of more than u32::MAX bytes: too long to write out, the model
\* keeps this marker for it
OversizedString == <<-1>>

\* a record a caller of the provider can build in memory, with a url that
\* no u32 length prefix can describe
OversizedRecord == ContentRecord(<<117>>, <<49>>, <<104>>, OversizedString)

\* u32 length prefix, little endian
LE32_bigEndian(n) ==
    <<(n \div 16777216) % 256, (n \div 65536) % 256, (n \div 256) % 256,
      n % 256>>

LE32(n) ==
    <<n % 256, (n \div 256) % 256, (n \div 65536) % 256,
      (n \div 16777216) % 256>>

\* Borsh writes a String as its length in a u32, then its bytes; a length
\* that does not fit a u32 is the one serialisation error
\* len / 65536
LenDiv65536(s) == IF s = OversizedString THEN 65536 ELSE Len(s) \div 65536

FitsU32(s) == LenDiv65536(s) < 65536

BorshString(s) == LE32(Len(s)) \o s

\* variant index of StoreProof in `enum ProofInstruction`
StoreProofDiscriminant == 0

StoreProof(rec) == [url |-> rec.url, hash |-> rec.hash, created_at |-> rec.created_at]

try_to_vec_truncating(ins) ==
    [ok |-> TRUE,
     bytes |-> <<StoreProofDiscriminant>> \o BorshString(ins.url)
                  \o BorshString(ins.hash) \o BorshString(ins.created_at)]

try_to_vec(ins) ==
    IF FitsU32(ins.url) /\ FitsU32(ins.hash) /\ FitsU32(ins.created_at)
    THEN [ok |-> TRUE,
          bytes |-> <<StoreProofDiscriminant>> \o BorshString(ins.url)
                       \o BorshString(ins.hash) \o BorshString(ins.created_at)]
    ELSE [ok |-> FALSE, err |-> "EncodingError"]

(***************************************************************************)
(* Signatures and their text form (Signature::to_string is Base58).        *)
(***************************************************************************)
SigIds == 1..MaxSigId

\* a signature is 64 bytes; the ones of the model differ in the last byte
SignatureBytes(id) == [i \in 1..64 |-> IF i = 64 THEN id % 256 ELSE 0]

Alphabet ==
    <<"1", "2", "3", "4", "5", "6", "7", "8", "9", "A", "B", "C", "D", "E",
      "F", "G", "H", "J", "K", "L", "M", "N", "P", "Q", "R", "S", "T", "U",
      "V", "W", "X", "Y", "Z", "a", "b", "c", "d", "e", "f", "g", "h", "i",
      "j", "k", "m", "n", "o", "p", "q", "r", "s", "t", "u", "v", "w", "x",
      "y", "z">>

RECURSIVE LeadingZeros(_)
LeadingZeros(bytes) ==
    IF bytes = <<>> \/ Head(bytes) # 0 THEN 0 ELSE 1 + LeadingZeros(Tail(bytes))

RECURSIVE BytesToNat(_)
BytesToNat(bytes) ==
    IF bytes = <<>> THEN 0
    ELSE BytesToNat(SubSeq(bytes, 1, Len(bytes) - 1)) * 256 + bytes[Len(bytes)]

RECURSIVE Base58Digits(_)
Base58Digits(n) ==
    IF n = 0 THEN <<>>
    ELSE Append(Base58Digits(n \div 58), Alphabet[(n % 58) + 1])

\* every leading zero byte becomes a "1", the rest is the number in base 58
Base58(bytes) ==
    LET z == LeadingZeros(bytes)
    IN  [i \in 1..z |-> "1"] \o Base58Digits(BytesToNat(SubSeq(bytes, z + 1, Len(bytes))))

\* `signature.to_string()`
TransactionId_empty(sig) == <<>>

TransactionId(sig) == Base58(sig)

(***************************************************************************)
(* Instruction and transaction.                                            *)
(***************************************************************************)
AccountMeta(pubkey, is_signer, is_writable) ==
    [pubkey |-> pubkey, is_signer |-> is_signer, is_writable |-> is_writable]

\* the accounts of an instruction that are marked as signers
DeclaredSigners(ins) ==
    { ins.accounts[i].pubkey : i \in { j \in DOMAIN ins.accounts : ins.accounts[j].is_signer } }

\* Transaction::new_signed_with_payer: the fee payer and every account marked
\* as signer must sign.  A key pair that is not a required signer, or a
\* required signer without its key pair, makes the constructor panic.
new_signed_with_payer(ins, fee_payer, signing_keypairs, blockhash) ==
    LET required == {fee_payer} \cup DeclaredSigners(ins)
        signing == { signing_keypairs[i] : i \in DOMAIN signing_keypairs }
    IN  IF signing = required
        THEN [ok |-> TRUE,
              instruction |-> ins,
              fee_payer |-> fee_payer,
              recent_blockhash |-> blockhash,
              signatures |-> signing]
        ELSE [ok |-> FALSE]

Blockhashes == 1..MaxBlockhash

\* what get_latest_blockhash can answer
BlockhashResponses ==
    { [ok |-> TRUE, blockhash |-> h] : h \in Blockhashes }
        \cup { [ok |-> FALSE, err |-> "BlockhashError"] }

\* what send_and_confirm_transaction_with_spinner can answer: confirmed with
\* the transaction's signature, rejected on submission, or not confirmed
SendResponses ==
    { [ok |-> TRUE, outcome |-> "confirmed", sig |-> SignatureBytes(s)] : s \in SigIds }
        \cup { [ok |-> FALSE, outcome |-> "rejected", err |-> "SubmissionError"],
               [ok |-> FALSE, outcome |-> "unconfirmed", err |-> "ConfirmationTimeoutError"] }


VARIABLES
    deployment,       \* "gateway" (main.rs) or "provider" (solana.rs)
    config,           \* the provider's ChainConfig (struct field); None in the gateway
    keyfile,          \* the credential file at the key pair path
    initLog,          \* what construction did, in order
    payer,            \* public key of the payer key pair (struct field)
    program_id,       \* struct field
    connPc,           \* position of the bounded connection wait / startup
    attempt,          \* loop variable of `for attempt in 1..=10`
    connLog,          \* what the connection wait did: probes and sleeps
    pc,               \* per request: position in its handler
    op,               \* per request: the operation called
    request,          \* per request: the request message / argument
    proof_account,    \* per request: key generated for the proof account
    data,             \* per request: encoded instruction payload
    transaction,      \* per request: the signed transaction
    signature,        \* per request: signature the ledger returned
    response,         \* per request: what the caller got back
    failure,          \* per request: the error its pipeline ended with
    calls,            \* per request: the steps it took, in order
    ledger            \* transactions submitted to the ledger, in order

connVars == <<connPc, attempt, connLog>>
reqVars == <<pc, op, request, proof_account, data, transaction, signature,
             response, failure, calls>>
vars == <<deployment, config, keyfile, initLog, payer, program_id, connPc, attempt, connLog, pc, op,
          request, proof_account, data, transaction, signature, response,
          failure, calls, ledger>>

(***************************************************************************)
(* Construction: program id and payer key pair.                            *)
(***************************************************************************)
Some(v) == [some |-> v]

\* the program id text of the deployment
ProgramIdText ==
    <<"6", "F", "8", "V", "F", "9", "4", "1", "3", "B", "r", "w", "B", "Y", "L",
      "P", "n", "d", "C", "b", "K", "T", "B", "7", "4", "b", "b", "z", "D", "C",
      "d", "v", "3", "3", "5", "j", "T", "o", "Y", "z", "C", "A", "3", "D">>

\* texts that are no public key: a character outside the alphabet, too short
BadProgramIdTexts == { <<"0", "x", "1", "2">>, <<"6", "F", "8", "V">> }

Base58Index(c) == CHOOSE i \in DOMAIN Alphabet : Alphabet[i] = c

\* bytes := bytes * 58 + carry, on a little-endian byte string
RECURSIVE MulAdd58(_, _)
MulAdd58(bytes, carry) ==
    IF bytes = <<>>
    THEN IF carry = 0 THEN <<>> ELSE <<carry % 256>> \o MulAdd58(<<>>, carry \div 256)
    ELSE LET v == Head(bytes) * 58 + carry
         IN  <<v % 256>> \o MulAdd58(Tail(bytes), v \div 256)

\* the number a Base58 text stands for, as little-endian bytes
RECURSIVE Base58Number(_)
Base58Number(text) ==
    IF text = <<>> THEN <<>>
    ELSE MulAdd58(Base58Number(SubSeq(text, 1, Len(text) - 1)),
                  Base58Index(text[Len(text)]) - 1)

RECURSIVE LeadingOnes(_)
LeadingOnes(text) ==
    IF text = <<>> \/ Head(text) # "1" THEN 0 ELSE 1 + LeadingOnes(Tail(text))

\* Pubkey::from_str: at most 44 characters of the alphabet that decode to
\* exactly 32 bytes
from_str(text) ==
    IF /\ Len(text) <= 44
       /\ \A i \in DOMAIN text : \E j \in DOMAIN Alphabet : Alphabet[j] = text[i]
       /\ LeadingOnes(text) + Len(Base58Number(text)) = 32
    THEN [ok |-> TRUE, key |-> ProgramId]
    ELSE [ok |-> FALSE, err |-> "ParsePubkeyError"]

\* the 64 bytes of a key pair file; the ones of the model differ in the last
\* byte, which stands for the public key
KeypairBytes(key) == [i \in 1..64 |-> IF i = 64 THEN key ELSE 0]

\* Keypair::from_bytes: 64 bytes whose public half is a key
from_bytes(bytes) ==
    IF Len(bytes) = 64 /\ bytes[64] \in KeySpace
    THEN [ok |-> TRUE, key |-> bytes[64]]
    ELSE [ok |-> FALSE, err |-> "KeypairBytesError"]

\* the credential file: absent, unreadable, or readable with a content that
\* is a JSON array of bytes (json = Some(bytes)) or something else
FileMissing == [exists |-> FALSE]
FileUnreadable == [exists |-> TRUE, readable |-> FALSE]
FileOf(json) == [exists |-> TRUE, readable |-> TRUE, json |-> json]

KeyFiles ==
    { FileMissing, FileUnreadable,
      FileOf(None),                          \* not a JSON byte array
      FileOf(Some(<<1, 2, 3>>)),             \* wrong length
      FileOf(Some(KeypairBytes(255))),       \* 64 bytes, no key
      FileOf(Some(KeypairBytes(PayerKey))) } \* the payer's key pair

\* path.exists(), read_to_string, serde_json::from_str, Keypair::from_bytes:
\* the key pair of the file, or the step that failed
ReadKeypairFile(file) ==
    IF ~file.exists THEN [ok |-> FALSE, log |-> <<"exists">>]
    ELSE IF ~file.readable THEN [ok |-> FALSE, log |-> <<"exists", "read_to_string">>]
    ELSE IF file.json = None
         THEN [ok |-> FALSE, log |-> <<"exists", "read_to_string", "parse_json">>]
    ELSE LET kp == from_bytes(file.json.some)
             log == <<"exists", "read_to_string", "parse_json", "from_bytes">>
         IN  IF kp.ok THEN [ok |-> TRUE, key |-> kp.key, log |-> log]
             ELSE [ok |-> FALSE, log |-> log]

\* MyChainGateway::default, the payer: the key pair of the file, else a new one
GatewayPayer_strict(file, generated) ==
    LET f == ReadKeypairFile(file)
    IN  IF f.ok THEN [ok |-> TRUE, key |-> f.key, log |-> f.log]
        ELSE [ok |-> FALSE, err |-> "ConfigurationError", log |-> f.log]

GatewayPayer(file, generated) ==
    LET f == ReadKeypairFile(file)
    IN  IF f.ok THEN [ok |-> TRUE, key |-> f.key, log |-> f.log]
        ELSE [ok |-> TRUE, key |-> generated, log |-> Append(f.log, "generate")]

\* SolanaProvider::load_keypair: the same, when a path is configured
load_keypair(cfg, file, generated) ==
    IF cfg.private_key_path # None
    THEN LET f == ReadKeypairFile(file)
         IN  IF f.ok THEN [ok |-> TRUE, key |-> f.key, log |-> f.log]
             ELSE [ok |-> TRUE, key |-> generated, log |-> Append(f.log, "generate")]
    ELSE [ok |-> TRUE, key |-> generated, log |-> <<"generate">>]

\* SolanaProvider::new: client, program id, payer, in this order; `?` ends it
\* at the first error
new_keyFirst(cfg, file, generated) ==
    LET kp == load_keypair(cfg, file, generated)
        pid == IF cfg.program_id = None
               THEN [ok |-> FALSE, err |-> "Program ID is required for Solana provider"]
               ELSE from_str(cfg.program_id.some)
    IN  IF ~pid.ok
        THEN [ok |-> FALSE, err |-> pid.err, log |-> <<"client">> \o kp.log \o <<"program_id">>]
        ELSE [ok |-> TRUE, program_id |-> pid.key, payer |-> kp.key,
              log |-> <<"client">> \o kp.log \o <<"program_id">>]

new(cfg, file, generated) ==
    LET pid == IF cfg.program_id = None
               THEN [ok |-> FALSE, err |-> "Program ID is required for Solana provider"]
               ELSE from_str(cfg.program_id.some)
    IN  IF ~pid.ok
        THEN [ok |-> FALSE, err |-> pid.err, log |-> <<"client", "program_id">>]
        ELSE LET kp == load_keypair(cfg, file, generated)
             IN  IF ~kp.ok
                 THEN [ok |-> FALSE, err |-> kp.err,
                       log |-> <<"client", "program_id">> \o kp.log]
                 ELSE [ok |-> TRUE, program_id |-> pid.key, payer |-> kp.key,
                       log |-> <<"client", "program_id">> \o kp.log]

\* the configurations callers construct the provider from
KeyPath == "/root/.config/solana/id.json"

ChainConfigs ==
    [network_url : {"http://solana-validator:8899"},
     program_id : {None, Some(ProgramIdText)} \cup { Some(t) : t \in BadProgramIdTexts },
     private_key_path : {None, Some(KeyPath)},
     chain_type : {"Solana"}]

\* MyChainGateway::default up to the startup loop
GatewayDefault(generated) ==
    /\ deployment = "gateway"
    /\ connPc = "start"
    /\ LET kp == GatewayPayer(keyfile, generated)
           pid == from_str(ProgramIdText)
       IN  /\ initLog' = <<"client", "program_id">> \o kp.log
           /\ IF pid.ok /\ kp.ok
              THEN /\ program_id' = pid.key
                   /\ payer' = kp.key
                   /\ connPc' = "probing"
                   /\ attempt' = 1
              ELSE /\ connPc' = "panicked"
                   /\ UNCHANGED <<program_id, payer, attempt>>
    /\ UNCHANGED <<deployment, config, keyfile, connLog, reqVars, ledger>>

\* SolanaProvider::new
ProviderNew(generated) ==
    /\ deployment = "provider"
    /\ connPc = "start"
    /\ LET res == new(config, keyfile, generated)
       IN  /\ initLog' = res.log
           /\ IF res.ok
              THEN /\ program_id' = res.program_id
                   /\ payer' = res.payer
                   /\ connPc' = "new"
              ELSE /\ connPc' = "config_error"
                   /\ UNCHANGED <<program_id, payer>>
    /\ UNCHANGED <<deployment, config, keyfile, attempt, connLog, reqVars, ledger>>

(***************************************************************************)
(* Bounded connection wait.                                                *)
(***************************************************************************)
\* the 10 of `for attempt in 1..=10` and of `if attempt < 10`
MaxAttempts == 10

\* `for attempt in 1..=10`: the attempt after which the loop is over
LastAttempt_oneMore(a) == a >= MaxAttempts + 1

LastAttempt(a) == a >= MaxAttempts

\* `if attempt < 10 { sleep(3 s) }`
SleepsAfterFailure_always(a) == TRUE

SleepsAfterFailure(a) == a < MaxAttempts

NumProbes == Len(SelectSeq(connLog, LAMBDA e : e \in {"probe_ok", "probe_err"}))
NumFailed == Len(SelectSeq(connLog, LAMBDA e : e = "probe_err"))
NumSleeps == Len(SelectSeq(connLog, LAMBDA e : e = "sleep"))

\* MyChainGateway::default, the health probe of one loop iteration
GatewayAfterHealthy_continue(a) == IF LastAttempt(a) THEN "constructed" ELSE "next"

GatewayAfterHealthy(a) == "constructed"

GatewayProbe(healthy) ==
    /\ deployment = "gateway"
    /\ connPc = "probing"
    /\ connLog' = Append(connLog, IF healthy THEN "probe_ok" ELSE "probe_err")
    /\ IF healthy
       THEN LET nxt == GatewayAfterHealthy(attempt)
            IN  IF nxt = "next"
                THEN connPc' = "probing" /\ attempt' = attempt + 1
                ELSE connPc' = nxt /\ attempt' = attempt
       ELSE IF SleepsAfterFailure(attempt)
            THEN connPc' = "sleeping" /\ attempt' = attempt
            ELSE IF LastAttempt(attempt)
                 THEN connPc' = "constructed" /\ attempt' = attempt
                 ELSE connPc' = "probing" /\ attempt' = attempt + 1
    /\ UNCHANGED <<deployment, config, keyfile, initLog, payer, program_id, reqVars, ledger>>

\* std::thread::sleep(3 s), then the next iteration
GatewaySleep ==
    /\ deployment = "gateway"
    /\ connPc = "sleeping"
    /\ connLog' = Append(connLog, "sleep")
    /\ IF LastAttempt(attempt)
       THEN connPc' = "constructed" /\ attempt' = attempt
       ELSE connPc' = "probing" /\ attempt' = attempt + 1
    /\ UNCHANGED <<deployment, config, keyfile, initLog, payer, program_id, reqVars, ledger>>

\* main: the service is constructed, the server starts to serve
Serve ==
    /\ deployment = "gateway"
    /\ connPc = "constructed"
    /\ connPc' = "serving"
    /\ UNCHANGED <<deployment, config, keyfile, initLog, payer, program_id, attempt, connLog, reqVars,
                   ledger>>

\* SolanaProvider::initialize
Initialize ==
    /\ deployment = "provider"
    /\ connPc = "new"
    /\ connPc' = "probing"
    /\ attempt' = 1
    /\ UNCHANGED <<deployment, config, keyfile, initLog, payer, program_id, connLog, reqVars, ledger>>

\* SolanaProvider::wait_for_connection, the health probe of one iteration
ProviderAfterHealthy_continue(a) == IF LastAttempt(a) THEN "err" ELSE "next"

ProviderAfterHealthy(a) == "ok"

ProviderProbe(healthy) ==
    /\ deployment = "provider"
    /\ connPc = "probing"
    /\ connLog' = Append(connLog, IF healthy THEN "probe_ok" ELSE "probe_err")
    /\ IF healthy
       THEN LET nxt == ProviderAfterHealthy(attempt)
            IN  IF nxt = "next"
                THEN connPc' = "probing" /\ attempt' = attempt + 1
                ELSE connPc' = nxt /\ attempt' = attempt
       ELSE IF SleepsAfterFailure(attempt)
            THEN connPc' = "sleeping" /\ attempt' = attempt
            ELSE IF LastAttempt(attempt)
                 THEN connPc' = "err" /\ attempt' = attempt
                 ELSE connPc' = "probing" /\ attempt' = attempt + 1
    /\ UNCHANGED <<deployment, config, keyfile, initLog, payer, program_id, reqVars, ledger>>

\* tokio::time::sleep(3 s), then the next iteration
ProviderSleep ==
    /\ deployment = "provider"
    /\ connPc = "sleeping"
    /\ connLog' = Append(connLog, "sleep")
    /\ IF LastAttempt(attempt)
       THEN connPc' = "err" /\ attempt' = attempt
       ELSE connPc' = "probing" /\ attempt' = attempt + 1
    /\ UNCHANGED <<deployment, config, keyfile, initLog, payer, program_id, reqVars, ledger>>

(***************************************************************************)
(* The gateway's RPC handlers (main.rs).                                   *)
(***************************************************************************)
Status(code, message) == [kind |-> "Status", code |-> code, message |-> message]

\* `None => return Err(Status::invalid_argument("Record is missing"))`
StoreRejectMissing_afterProbe(r) ==
    /\ response' = [response EXCEPT ![r] = Status("invalid_argument", "Record is missing")]
    /\ calls' = [calls EXCEPT ![r] = Append(@, "get_health")]
    /\ pc' = [pc EXCEPT ![r] = "done"]

StoreRejectMissing(r) ==
    /\ response' = [response EXCEPT ![r] = Status("invalid_argument", "Record is missing")]
    /\ calls' = calls
    /\ pc' = [pc EXCEPT ![r] = "done"]

\* MyChainGateway::store up to the call of call_solana_program
Store(r, rec) ==
    /\ deployment = "gateway"
    /\ connPc = "serving"
    /\ pc[r] = "idle"
    /\ op' = [op EXCEPT ![r] = "Store"]
    /\ request' = [request EXCEPT ![r] = [record |-> rec]]
    /\ IF rec = None
       THEN StoreRejectMissing(r)
       ELSE /\ pc' = [pc EXCEPT ![r] = "sleep"]
            /\ UNCHANGED <<response, calls>>
    /\ UNCHANGED <<deployment, config, keyfile, initLog, payer, program_id, connVars, proof_account, data,
                   transaction, signature, failure, ledger>>

\* MyChainGateway::store, the match on what call_solana_program returned
StoreResult_leak(res) ==
    IF res.ok
    THEN [kind |-> "Ok", success |-> TRUE, transaction_id |-> res.value]
    ELSE Status("internal", res.err)

StoreResult(res) ==
    IF res.ok
    THEN [kind |-> "Ok", success |-> TRUE, transaction_id |-> res.value]
    ELSE Status("internal", "Failed to store on blockchain")

\* call_solana_program returns `res` to store, store answers the caller
StoreReturn(r, res) ==
    /\ response' = [response EXCEPT ![r] = StoreResult(res)]
    /\ failure' = [failure EXCEPT ![r] = IF res.ok THEN "none" ELSE res.err]
    /\ pc' = [pc EXCEPT ![r] = "done"]

\* call_solana_program: the instruction with its three accounts, signed by
\* the payer and the proof account
GatewayTransaction_payerOnly(prog, payerKey, proofKey, bytes, blockhash) ==
    new_signed_with_payer(
        [program_id |-> prog,
         data |-> bytes,
         accounts |-> <<AccountMeta(payerKey, TRUE, TRUE),
                        AccountMeta(proofKey, FALSE, TRUE),
                        AccountMeta(SystemProgramId, FALSE, FALSE)>>],
        payerKey, <<payerKey>>, blockhash)

GatewayTransaction(prog, payerKey, proofKey, bytes, blockhash) ==
    new_signed_with_payer(
        [program_id |-> prog,
         data |-> bytes,
         accounts |-> <<AccountMeta(payerKey, TRUE, TRUE),
                        AccountMeta(proofKey, TRUE, TRUE),
                        AccountMeta(SystemProgramId, FALSE, FALSE)>>],
        payerKey, <<payerKey, proofKey>>, blockhash)

\* tokio::time::sleep(2 s)
call_solana_program_sleep_skipped(r) ==
    /\ deployment = "gateway"
    /\ pc[r] = "sleep"
    /\ pc' = [pc EXCEPT ![r] = "build"]
    /\ UNCHANGED <<deployment, config, keyfile, initLog, payer, program_id, connVars, op, request,
                   proof_account, data, transaction, signature, response,
                   failure, calls, ledger>>

call_solana_program_sleep(r) ==
    /\ deployment = "gateway"
    /\ pc[r] = "sleep"
    /\ calls' = [calls EXCEPT ![r] = Append(@, "sleep")]
    /\ pc' = [pc EXCEPT ![r] = "build"]
    /\ UNCHANGED <<deployment, config, keyfile, initLog, payer, program_id, connVars, op, request,
                   proof_account, data, transaction, signature, response,
                   failure, ledger>>

\* Keypair::new() and the Borsh encoding of the payload
call_solana_program_build(r, key) ==
    /\ deployment = "gateway"
    /\ pc[r] = "build"
    /\ proof_account' = [proof_account EXCEPT ![r] = key]
    /\ calls' = [calls EXCEPT ![r] = @ \o <<"keygen", "encode">>]
    /\ LET enc == try_to_vec(StoreProof(request[r].record))
       IN  IF enc.ok
           THEN /\ data' = [data EXCEPT ![r] = enc.bytes]
                /\ pc' = [pc EXCEPT ![r] = "get_latest_blockhash"]
                /\ UNCHANGED <<response, failure>>
           ELSE /\ StoreReturn(r, enc)
                /\ UNCHANGED data
    /\ UNCHANGED <<deployment, config, keyfile, initLog, payer, program_id, connVars, op, request,
                   transaction, signature, ledger>>

\* get_latest_blockhash, then Transaction::new_signed_with_payer
call_solana_program_blockhash(r, resp) ==
    /\ deployment = "gateway"
    /\ pc[r] = "get_latest_blockhash"
    /\ IF resp.ok
       THEN LET tx == GatewayTransaction(program_id, payer, proof_account[r],
                                         data[r], resp.blockhash)
            IN  /\ calls' = [calls EXCEPT ![r] = @ \o <<"get_latest_blockhash", "sign">>]
                /\ transaction' = [transaction EXCEPT ![r] = tx]
                /\ pc' = [pc EXCEPT ![r] = IF tx.ok THEN "send" ELSE "panicked"]
                /\ UNCHANGED <<response, failure>>
       ELSE /\ calls' = [calls EXCEPT ![r] = Append(@, "get_latest_blockhash")]
            /\ StoreReturn(r, resp)
            /\ UNCHANGED transaction
    /\ UNCHANGED <<deployment, config, keyfile, initLog, payer, program_id, connVars, op, request,
                   proof_account, data, signature, ledger>>

\* a send that is tried again after a failure
call_solana_program_send_retry(r, resp) ==
    /\ deployment = "gateway"
    /\ pc[r] = "send"
    /\ calls' = [calls EXCEPT ![r] = Append(@, "send")]
    /\ ledger' = Append(ledger, [req |-> r, tx |-> transaction[r], outcome |-> resp.outcome,
                                sig |-> IF resp.ok THEN resp.sig ELSE None])
    /\ IF resp.ok
       THEN /\ signature' = [signature EXCEPT ![r] = resp.sig]
            /\ StoreReturn(r, [ok |-> TRUE, value |-> TransactionId(resp.sig)])
       ELSE /\ UNCHANGED signature
            /\ IF Len(SelectSeq(calls[r], LAMBDA c : c = "send")) = 0
               THEN /\ pc' = [pc EXCEPT ![r] = "get_latest_blockhash"]
                    /\ UNCHANGED <<response, failure>>
               ELSE StoreReturn(r, resp)
    /\ UNCHANGED <<deployment, config, keyfile, initLog, payer, program_id, connVars, op, request,
                   proof_account, data, transaction>>

\* send_and_confirm_transaction_with_spinner, then `Ok(signature.to_string())`
call_solana_program_send(r, resp) ==
    /\ deployment = "gateway"
    /\ pc[r] = "send"
    /\ calls' = [calls EXCEPT ![r] = Append(@, "send")]
    /\ ledger' = Append(ledger, [req |-> r, tx |-> transaction[r], outcome |-> resp.outcome,
                                sig |-> IF resp.ok THEN resp.sig ELSE None])
    /\ IF resp.ok
       THEN /\ signature' = [signature EXCEPT ![r] = resp.sig]
            /\ StoreReturn(r, [ok |-> TRUE, value |-> TransactionId(resp.sig)])
       ELSE /\ UNCHANGED signature
            /\ StoreReturn(r, resp)
    /\ UNCHANGED <<deployment, config, keyfile, initLog, payer, program_id, connVars, op, request,
                   proof_account, data, transaction>>

\* transaction ids callers ask for
NonexistentId == <<"n", "o", "n", "e", "x", "i", "s", "t", "e", "n", "t", "-", "i", "d">>

RetrieveIds == {NonexistentId} \cup { Base58(SignatureBytes(s)) : s \in SigIds }

\* MyChainGateway::retrieve: the placeholder record, whatever the id
Retrieve(r, id) ==
    /\ deployment = "gateway"
    /\ connPc = "serving"
    /\ pc[r] = "idle"
    /\ op' = [op EXCEPT ![r] = "Retrieve"]
    /\ request' = [request EXCEPT ![r] = [transaction_id |-> id]]
    /\ response' = [response EXCEPT ![r] =
           [kind |-> "Ok",
            record |-> ContentRecord("dummy_uid", "2025-05-03T12:00:00Z",
                                     "dummy_hash", "https://example.com")]]
    /\ pc' = [pc EXCEPT ![r] = "done"]
    /\ UNCHANGED <<deployment, config, keyfile, initLog, payer, program_id, connVars, proof_account, data,
                   transaction, signature, failure, calls, ledger>>

(***************************************************************************)
(* The provider's operations (providers/solana.rs).  Callers use the       *)
(* provider once initialize() has returned Ok.                             *)
(***************************************************************************)
TransactionResult_counted(transaction_id) ==
    [transaction_id |-> transaction_id, block_height |-> Some(Len(ledger)),
     confirmation_time |-> None]

TransactionResult(transaction_id) ==
    [transaction_id |-> transaction_id, block_height |-> None, confirmation_time |-> None]

\* store_record_impl returns: `?` hands the error to the caller as it is
StoreRecordResult_optimistic(res) ==
    [kind |-> "Ok", value |-> TransactionResult(IF res.ok THEN res.value ELSE <<>>)]

StoreRecordResult(res) ==
    IF res.ok
    THEN [kind |-> "Ok", value |-> TransactionResult(res.value)]
    ELSE [kind |-> "Err", err |-> res.err]

StoreRecordReturn(r, res) ==
    /\ response' = [response EXCEPT ![r] = StoreRecordResult(res)]
    /\ failure' = [failure EXCEPT ![r] = IF res.ok THEN "none" ELSE res.err]
    /\ pc' = [pc EXCEPT ![r] = "done"]

\* BlockchainProvider::store_record, called with a record
store_record(r, rec) ==
    /\ deployment = "provider"
    /\ connPc = "ok"
    /\ pc[r] = "idle"
    /\ op' = [op EXCEPT ![r] = "store_record"]
    /\ request' = [request EXCEPT ![r] = [record |-> rec]]
    /\ pc' = [pc EXCEPT ![r] = "sleep"]
    /\ UNCHANGED <<deployment, config, keyfile, initLog, payer, program_id, connVars, proof_account, data,
                   transaction, signature, response, failure, calls, ledger>>

\* store_record_impl: the instruction with its three accounts, signed by the
\* payer and the proof account
ProviderTransaction_proofFirst(prog, payerKey, proofKey, bytes, blockhash) ==
    new_signed_with_payer(
        [program_id |-> prog,
         data |-> bytes,
         accounts |-> <<AccountMeta(proofKey, TRUE, TRUE),
                        AccountMeta(payerKey, TRUE, TRUE),
                        AccountMeta(SystemProgramId, FALSE, FALSE)>>],
        payerKey, <<payerKey, proofKey>>, blockhash)

ProviderTransaction(prog, payerKey, proofKey, bytes, blockhash) ==
    new_signed_with_payer(
        [program_id |-> prog,
         data |-> bytes,
         accounts |-> <<AccountMeta(payerKey, TRUE, TRUE),
                        AccountMeta(proofKey, TRUE, TRUE),
                        AccountMeta(SystemProgramId, FALSE, FALSE)>>],
        payerKey, <<payerKey, proofKey>>, blockhash)

\* tokio::time::sleep(2 s)
store_record_impl_sleep(r) ==
    /\ deployment = "provider"
    /\ pc[r] = "sleep"
    /\ calls' = [calls EXCEPT ![r] = Append(@, "sleep")]
    /\ pc' = [pc EXCEPT ![r] = "build"]
    /\ UNCHANGED <<deployment, config, keyfile, initLog, payer, program_id, connVars, op, request,
                   proof_account, data, transaction, signature, response,
                   failure, ledger>>

\* Keypair::new() and the Borsh encoding of the payload
store_record_impl_build(r, key) ==
    /\ deployment = "provider"
    /\ pc[r] = "build"
    /\ proof_account' = [proof_account EXCEPT ![r] = key]
    /\ calls' = [calls EXCEPT ![r] = @ \o <<"keygen", "encode">>]
    /\ LET enc == try_to_vec(StoreProof(request[r].record))
       IN  IF enc.ok
           THEN /\ data' = [data EXCEPT ![r] = enc.bytes]
                /\ pc' = [pc EXCEPT ![r] = "get_latest_blockhash"]
                /\ UNCHANGED <<response, failure>>
           ELSE /\ StoreRecordReturn(r, enc)
                /\ UNCHANGED data
    /\ UNCHANGED <<deployment, config, keyfile, initLog, payer, program_id, connVars, op, request,
                   transaction, signature, ledger>>

\* get_latest_blockhash, then Transaction::new_signed_with_payer
store_record_impl_blockhash(r, resp) ==
    /\ deployment = "provider"
    /\ pc[r] = "get_latest_blockhash"
    /\ IF resp.ok
       THEN LET tx == ProviderTransaction(program_id, payer, proof_account[r],
                                          data[r], resp.blockhash)
            IN  /\ calls' = [calls EXCEPT ![r] = @ \o <<"get_latest_blockhash", "sign">>]
                /\ transaction' = [transaction EXCEPT ![r] = tx]
                /\ pc' = [pc EXCEPT ![r] = IF tx.ok THEN "send" ELSE "panicked"]
                /\ UNCHANGED <<response, failure>>
       ELSE /\ calls' = [calls EXCEPT ![r] = Append(@, "get_latest_blockhash")]
            /\ StoreRecordReturn(r, resp)
            /\ UNCHANGED transaction
    /\ UNCHANGED <<deployment, config, keyfile, initLog, payer, program_id, connVars, op, request,
                   proof_account, data, signature, ledger>>

\* send_and_confirm_transaction_with_spinner, then the TransactionResult
store_record_impl_send(r, resp) ==
    /\ deployment = "provider"
    /\ pc[r] = "send"
    /\ calls' = [calls EXCEPT ![r] = Append(@, "send")]
    /\ ledger' = Append(ledger, [req |-> r, tx |-> transaction[r], outcome |-> resp.outcome,
                                sig |-> IF resp.ok THEN resp.sig ELSE None])
    /\ IF resp.ok
       THEN /\ signature' = [signature EXCEPT ![r] = resp.sig]
            /\ StoreRecordReturn(r, [ok |-> TRUE, value |-> TransactionId(resp.sig)])
       ELSE /\ UNCHANGED signature
            /\ StoreRecordReturn(r, resp)
    /\ UNCHANGED <<deployment, config, keyfile, initLog, payer, program_id, connVars, op, request,
                   proof_account, data, transaction>>

\* retrieve_record_impl: the placeholder record, whatever the id
retrieve_record(r, id) ==
    /\ deployment = "provider"
    /\ connPc = "ok"
    /\ pc[r] = "idle"
    /\ op' = [op EXCEPT ![r] = "retrieve_record"]
    /\ request' = [request EXCEPT ![r] = [transaction_id |-> id]]
    /\ response' = [response EXCEPT ![r] =
           [kind |-> "Ok",
            value |-> ContentRecord("retrieved_uid", "2025-05-03T12:00:00Z",
                                    "retrieved_hash", "https://retrieved.example.com")]]
    /\ pc' = [pc EXCEPT ![r] = "done"]
    /\ UNCHANGED <<deployment, config, keyfile, initLog, payer, program_id, connVars, proof_account, data,
                   transaction, signature, failure, calls, ledger>>

\* what get_health can answer
HealthResponses == { [ok |-> TRUE], [ok |-> FALSE, err |-> "ConnectionError"] }

\* health_check_impl, the match on what get_health returned
HealthCheckResult_propagate(res) ==
    IF res.ok THEN [kind |-> "Ok", value |-> TRUE] ELSE [kind |-> "Err", err |-> res.err]

HealthCheckResult(res) ==
    IF res.ok THEN [kind |-> "Ok", value |-> TRUE] ELSE [kind |-> "Ok", value |-> FALSE]

\* BlockchainProvider::health_check: one get_health, answered by resp
health_check(r, resp) ==
    /\ deployment = "provider"
    /\ connPc = "ok"
    /\ pc[r] = "idle"
    /\ op' = [op EXCEPT ![r] = "health_check"]
    /\ calls' = [calls EXCEPT ![r] = Append(@, "get_health")]
    /\ failure' = [failure EXCEPT ![r] = IF resp.ok THEN "none" ELSE resp.err]
    /\ response' = [response EXCEPT ![r] = HealthCheckResult(resp)]
    /\ pc' = [pc EXCEPT ![r] = "done"]
    /\ UNCHANGED <<deployment, config, keyfile, initLog, payer, program_id, connVars, request,
                   proof_account, data, transaction, signature, ledger>>

\* what get_slot can answer
SlotResponses ==
    { [ok |-> TRUE, slot |-> n] : n \in 0..MaxSlot } \cup { [ok |-> FALSE, err |-> "SlotError"] }

NetworkInfo(slot) ==
    [chain_id |-> "solana-localnet", block_height |-> slot,
     network_name |-> "Solana Local Validator"]

\* get_network_info_impl returns: `?` hands the error of get_slot to the caller
GetNetworkInfoResult(res) ==
    IF res.ok
    THEN [kind |-> "Ok", value |-> NetworkInfo(res.slot)]
    ELSE [kind |-> "Err", err |-> res.err]

\* BlockchainProvider::get_network_info: one get_slot, answered by resp
get_network_info(r, resp) ==
    /\ deployment = "provider"
    /\ connPc = "ok"
    /\ pc[r] = "idle"
    /\ op' = [op EXCEPT ![r] = "get_network_info"]
    /\ calls' = [calls EXCEPT ![r] = Append(@, "get_slot")]
    /\ failure' = [failure EXCEPT ![r] = IF resp.ok THEN "none" ELSE resp.err]
    /\ response' = [response EXCEPT ![r] = GetNetworkInfoResult(resp)]
    /\ pc' = [pc EXCEPT ![r] = "done"]
    /\ UNCHANGED <<deployment, config, keyfile, initLog, payer, program_id, connVars, request,
                   proof_account, data, transaction, signature, ledger>>

\* the deployment after a construction that found the payer's key pair file
Init ==
    /\ deployment \in {"gateway", "provider"}
    /\ config = IF deployment = "gateway" THEN None
                ELSE [network_url |-> "http://solana-validator:8899",
                      program_id |-> Some(ProgramIdText),
                      private_key_path |-> Some(KeyPath),
                      chain_type |-> "Solana"]
    /\ keyfile = FileOf(Some(KeypairBytes(PayerKey)))
    /\ initLog = <<"client", "program_id", "exists", "read_to_string", "parse_json",
                   "from_bytes">>
    /\ payer = PayerKey
    /\ program_id = ProgramId
    /\ connPc = IF deployment = "gateway" THEN "probing" ELSE "new"
    /\ attempt = IF deployment = "gateway" THEN 1 ELSE 0
    /\ connLog = <<>>
    /\ pc = [r \in Reqs |-> "idle"]
    /\ op = [r \in Reqs |-> "none"]
    /\ request = [r \in Reqs |-> None]
    /\ proof_account = [r \in Reqs |-> None]
    /\ data = [r \in Reqs |-> None]
    /\ transaction = [r \in Reqs |-> None]
    /\ signature = [r \in Reqs |-> None]
    /\ response = [r \in Reqs |-> [kind |-> "none"]]
    /\ failure = [r \in Reqs |-> "none"]
    /\ calls = [r \in Reqs |-> <<>>]
    /\ ledger = <<>>

Next ==
    \/ \E healthy \in BOOLEAN : GatewayProbe(healthy)
    \/ GatewaySleep
    \/ Serve
    \/ Initialize
    \/ \E healthy \in BOOLEAN : ProviderProbe(healthy)
    \/ ProviderSleep
    \/ \E r \in Reqs : \E rec \in Records \cup {None} : Store(r, rec)
    \/ \E r \in Reqs : call_solana_program_sleep(r)
    \/ \E r \in Reqs : \E key \in KeySpace : call_solana_program_build(r, key)
    \/ \E r \in Reqs : \E resp \in BlockhashResponses : call_solana_program_blockhash(r, resp)
    \/ \E r \in Reqs : \E resp \in SendResponses : call_solana_program_send(r, resp)
    \/ \E r \in Reqs : \E id \in RetrieveIds : Retrieve(r, id)
    \/ \E r \in Reqs : \E rec \in Records \cup {OversizedRecord} : store_record(r, rec)
    \/ \E r \in Reqs : store_record_impl_sleep(r)
    \/ \E r \in Reqs : \E key \in KeySpace : store_record_impl_build(r, key)
    \/ \E r \in Reqs : \E resp \in BlockhashResponses : store_record_impl_blockhash(r, resp)
    \/ \E r \in Reqs : \E resp \in SendResponses : store_record_impl_send(r, resp)
    \/ \E r \in Reqs : \E id \in RetrieveIds : retrieve_record(r, id)
    \/ \E r \in Reqs : \E resp \in HealthResponses : health_check(r, resp)
    \/ \E r \in Reqs : \E resp \in SlotResponses : get_network_info(r, resp)

Spec == Init /\ [][Next]_vars

(***************************************************************************)
(* Construction and startup, from any configuration and credential file.   *)
(***************************************************************************)
InitNew ==
    /\ deployment \in {"gateway", "provider"}
    /\ config \in IF deployment = "gateway" THEN {None} ELSE ChainConfigs
    /\ keyfile \in KeyFiles
    /\ initLog = <<>>
    /\ payer = None
    /\ program_id = None
    /\ connPc = "start"
    /\ attempt = 0
    /\ connLog = <<>>
    /\ pc = [r \in Reqs |-> "idle"]
    /\ op = [r \in Reqs |-> "none"]
    /\ request = [r \in Reqs |-> None]
    /\ proof_account = [r \in Reqs |-> None]
    /\ data = [r \in Reqs |-> None]
    /\ transaction = [r \in Reqs |-> None]
    /\ signature = [r \in Reqs |-> None]
    /\ response = [r \in Reqs |-> [kind |-> "none"]]
    /\ failure = [r \in Reqs |-> "none"]
    /\ calls = [r \in Reqs |-> <<>>]
    /\ ledger = <<>>

NextNew ==
    \/ \E generated \in KeySpace : GatewayDefault(generated)
    \/ \E generated \in KeySpace : ProviderNew(generated)
    \/ \E healthy \in BOOLEAN : GatewayProbe(healthy)
    \/ GatewaySleep
    \/ Serve
    \/ Initialize
    \/ \E healthy \in BOOLEAN : ProviderProbe(healthy)
    \/ ProviderSleep
    \/ \E r \in Reqs, rec \in Records : Store(r, rec)
    \/ \E r \in Reqs, rec \in Records : store_record(r, rec)

SpecNew == InitNew /\ [][NextNew]_vars

(***************************************************************************)
(* Properties.                                                             *)
(***************************************************************************)
Count(seq, x) == Len(SelectSeq(seq, LAMBDA c : c = x))

LedgerCallNames == {"get_health", "get_latest_blockhash", "send", "get_slot"}

\* the ledger calls request r has made
LedgerCalls(r) == SelectSeq(calls[r], LAMBDA c : c \in LedgerCallNames)

\* the submissions of request r
Submissions(r) == { i \in DOMAIN ledger : ledger[i].req = r }

IsStore(r) == op[r] \in {"Store", "store_record"}

\* the caller of request r was told the store succeeded
StoreSucceeded(r) ==
    /\ IsStore(r)
    /\ response[r].kind = "Ok"

\* C1: a Store request without a record ends with invalid-argument and has
\* made no ledger call: nothing fetched, nothing submitted.
C1_MissingRecordRejected ==
    \A r \in Reqs :
        (op[r] = "Store" /\ request[r].record = None) =>
            /\ pc[r] = "done"
            /\ response[r].kind = "Status"
            /\ response[r].code = "invalid_argument"
            /\ LedgerCalls(r) = <<>>
            /\ Submissions(r) = {}

C1_Witness ==
    \E r \in Reqs : op[r] = "Store" /\ request[r].record = None /\ pc[r] = "done"

\* C2: a store answers success only once the ledger has confirmed the
\* transaction of that request, and the transaction id it returns is the
\* non-empty text of the signature the ledger returned for it; a request
\* whose submission was not confirmed never answers success.
C2_SuccessOnlyWhenConfirmed ==
    \A r \in Reqs :
        /\ StoreSucceeded(r) =>
               LET tid == IF op[r] = "Store"
                          THEN response[r].transaction_id
                          ELSE response[r].value.transaction_id
               IN  /\ tid # <<>>
                   /\ \E i \in Submissions(r) :
                          /\ ledger[i].outcome = "confirmed"
                          /\ ledger[i].tx = transaction[r]
                          /\ ledger[i].sig = signature[r]
                          /\ tid = Base58(ledger[i].sig)
                   /\ op[r] = "Store" => response[r].success
        /\ (IsStore(r) /\ \E i \in Submissions(r) : ledger[i].outcome # "confirmed")
               => ~StoreSucceeded(r)
        /\ (IsStore(r) /\ Submissions(r) = {}) => ~StoreSucceeded(r)

C2_Witness ==
    \E r \in Reqs :
        /\ StoreSucceeded(r)
        /\ \E i \in Submissions(r) : ledger[i].outcome = "confirmed"

\* C3: a Store request with a record whose pipeline failed (blockhash fetch,
\* rejection, missing confirmation, encoding) is answered with the status
\* `internal` and the fixed message, the same for every failure; it is not
\* answered with success or another status.
C3_FailureIsInternal ==
    \A r \in Reqs :
        (/\ op[r] = "Store"
         /\ request[r].record # None
         /\ pc[r] = "done"
         /\ \/ failure[r] # "none"
            \/ ~\E i \in Submissions(r) : ledger[i].outcome = "confirmed")
        => /\ response[r] = Status("internal", "Failed to store on blockchain")
           /\ failure[r] \in {"EncodingError", "BlockhashError", "SubmissionError",
                              "ConfirmationTimeoutError"}

C3_Witness ==
    \E r \in Reqs :
        /\ op[r] = "Store"
        /\ pc[r] = "done"
        /\ failure[r] = "ConfirmationTimeoutError"
        /\ response[r].kind = "Status"

\* a record was stored under transaction id `id`: the ledger confirmed a
\* transaction with that signature
StoredUnder(id) ==
    \E i \in DOMAIN ledger :
        ledger[i].outcome = "confirmed" /\ Base58(ledger[i].sig) = id

\* C4: a retrieve for a transaction id under which nothing was stored is
\* answered with not-found by the RPC operation and with no record by the
\* provider.
C4_RetrieveUnknownIsNotFound ==
    \A r \in Reqs :
        (/\ op[r] \in {"Retrieve", "retrieve_record"}
         /\ pc[r] = "done"
         /\ ~StoredUnder(request[r].transaction_id))
        => /\ op[r] = "Retrieve" =>
                  response[r].kind = "Status" /\ response[r].code = "not_found"
           /\ op[r] = "retrieve_record" =>
                  response[r].kind = "Ok" /\ response[r].value = None

\* C5: when every probe of the provider's connection wait fails, it makes
\* exactly MaxAttempts probes and returns the error; it never makes one probe
\* more and never returns Ok.
C5_AllProbesFail ==
    deployment = "provider" =>
        /\ NumProbes <= MaxAttempts
        /\ (connPc \in {"ok", "err"} /\ NumFailed = NumProbes) =>
               connPc = "err" /\ NumProbes = MaxAttempts
        /\ connPc = "err" => NumFailed = MaxAttempts

C5_Witness ==
    deployment = "provider" /\ connPc = "err" /\ NumFailed = MaxAttempts

\* the connection wait has ended with success
ConnSucceeded ==
    IF deployment = "gateway" THEN connPc \in {"constructed", "serving"}
    ELSE connPc = "ok"

\* C6: when the first healthy probe is the k-th, the connection wait (the
\* provider's and the gateway's startup loop) succeeds after exactly k
\* probes: the healthy probe is the last one, the k-1 before it failed, and
\* the outcome is success.
C6_FirstHealthyProbeEnds ==
    (\E i \in DOMAIN connLog : connLog[i] = "probe_ok") =>
        /\ connLog[Len(connLog)] = "probe_ok"
        /\ Count(connLog, "probe_ok") = 1
        /\ NumProbes = NumFailed + 1
        /\ NumProbes = attempt
        /\ NumProbes <= MaxAttempts
        /\ ConnSucceeded

C6_Witness ==
    /\ deployment = "gateway"
    /\ connPc = "serving"
    /\ NumFailed = 2
    /\ NumProbes = 3

\* C7: when all MaxAttempts startup probes of the gateway fail, no gateway
\* instance is constructed, the server does not serve and no request is
\* handled.
C7_UnreachableLedgerStopsStartup ==
    (deployment = "gateway" /\ NumFailed = MaxAttempts) =>
        /\ connPc \notin {"constructed", "serving"}
        /\ \A r \in Reqs : pc[r] = "idle"

\* the error a submission outcome is reported as
ErrorOf(outcome) ==
    IF outcome = "rejected" THEN "SubmissionError" ELSE "ConfirmationTimeoutError"

\* C8: a store request submits at most once; after a rejected or unconfirmed
\* submission the request has ended in failure with that error, with one
\* blockhash fetch, one signing and one submission in all.
C8_AtMostOneSubmission ==
    \A r \in Reqs :
        /\ Cardinality(Submissions(r)) <= 1
        /\ Count(calls[r], "send") = Cardinality(Submissions(r))
        /\ Count(calls[r], "get_latest_blockhash") <= 1
        /\ Count(calls[r], "sign") <= 1
        /\ \A i \in Submissions(r) :
               ledger[i].outcome # "confirmed" =>
                   /\ pc[r] = "done"
                   /\ failure[r] = ErrorOf(ledger[i].outcome)
                   /\ ~StoreSucceeded(r)

C8_Witness ==
    \E r \in Reqs :
        /\ pc[r] = "done"
        /\ \E i \in Submissions(r) : ledger[i].outcome = "rejected"

\* C9: every submitted transaction is signed by exactly the accounts its
\* instruction marks as signers, and these are the payer and the proof
\* account generated for that request.
C9_DeclaredSignersSigned ==
    \A i \in DOMAIN ledger :
        /\ ledger[i].tx.ok
        /\ ledger[i].tx.signatures = DeclaredSigners(ledger[i].tx.instruction)
        /\ ledger[i].tx.signatures = {payer, proof_account[ledger[i].req]}
        /\ ledger[i].tx.fee_payer = payer

C9_Witness ==
    \E i \in DOMAIN ledger :
        /\ proof_account[ledger[i].req] \in FreshKeys
        /\ Cardinality(ledger[i].tx.signatures) = 2

\* C10: the proof account key of a store request differs from the payer's key
\* and from the program id in every submitted transaction; a request whose
\* generated key equals one of them ends with a collision error before any
\* blockhash fetch or submission.
C10_NoKeyCollision ==
    \A r \in Reqs :
        (Count(calls[r], "keygen") > 0 /\ proof_account[r] \in {payer, program_id}) =>
            /\ Count(calls[r], "get_latest_blockhash") = 0
            /\ Submissions(r) = {}
            /\ pc[r] = "done" => failure[r] = "CollisionError"


(***************************************************************************)
(* The encoding of records, one store_record call on an initialized        *)
(* provider up to the encoded payload.                                     *)
(***************************************************************************)
CodecBytes == {97, 98}

\* a String whose length needs the second byte of the prefix
LongString == [i \in 1..258 |-> 97]

CodecStrings ==
    UNION { [1..n -> CodecBytes] : n \in 0..MaxStrLen } \cup {LongString}

CodecRecords ==
    { ContentRecord(<<117>>, c, h, u) : c \in CodecStrings, h \in CodecStrings,
                                         u \in CodecStrings }

CodecReqs == {1}

InitCodec ==
    /\ deployment = "provider"
    /\ config = [network_url |-> "http://solana-validator:8899",
                 program_id |-> Some(ProgramIdText),
                 private_key_path |-> Some(KeyPath),
                 chain_type |-> "Solana"]
    /\ keyfile = FileOf(Some(KeypairBytes(PayerKey)))
    /\ initLog = <<"client", "program_id", "exists", "read_to_string", "parse_json",
                   "from_bytes">>
    /\ payer = PayerKey
    /\ program_id = ProgramId
    /\ connPc = "ok"
    /\ attempt = 1
    /\ connLog = <<"probe_ok">>
    /\ pc = [r \in CodecReqs |-> "idle"]
    /\ op = [r \in CodecReqs |-> "none"]
    /\ request = [r \in CodecReqs |-> None]
    /\ proof_account = [r \in CodecReqs |-> None]
    /\ data = [r \in CodecReqs |-> None]
    /\ transaction = [r \in CodecReqs |-> None]
    /\ signature = [r \in CodecReqs |-> None]
    /\ response = [r \in CodecReqs |-> [kind |-> "none"]]
    /\ failure = [r \in CodecReqs |-> "none"]
    /\ calls = [r \in CodecReqs |-> <<>>]
    /\ ledger = <<>>

NextCodec ==
    \/ \E r \in CodecReqs : \E rec \in CodecRecords : store_record(r, rec)
    \/ \E r \in CodecReqs : store_record_impl_sleep(r)
    \/ \E r \in CodecReqs : \E key \in FreshKeys : store_record_impl_build(r, key)

SpecCodec == InitCodec /\ [][NextCodec]_vars

(***************************************************************************)
(* Two concurrent callers of an initialized provider.                      *)
(***************************************************************************)
SharedReqs == {1, 2}

\* the ChainConfig the provider was constructed from
SharedConfig ==
    [network_url |-> "http://solana-validator:8899",
     program_id |-> Some(ProgramIdText),
     private_key_path |-> Some(KeyPath),
     chain_type |-> "Solana"]

InitShared ==
    /\ deployment = "provider"
    /\ config = SharedConfig
    /\ keyfile = FileOf(Some(KeypairBytes(PayerKey)))
    /\ initLog = <<"client", "program_id", "exists", "read_to_string", "parse_json",
                   "from_bytes">>
    /\ payer = PayerKey
    /\ program_id = ProgramId
    /\ connPc = "ok"
    /\ attempt = 1
    /\ connLog = <<"probe_ok">>
    /\ pc = [r \in SharedReqs |-> "idle"]
    /\ op = [r \in SharedReqs |-> "none"]
    /\ request = [r \in SharedReqs |-> None]
    /\ proof_account = [r \in SharedReqs |-> None]
    /\ data = [r \in SharedReqs |-> None]
    /\ transaction = [r \in SharedReqs |-> None]
    /\ signature = [r \in SharedReqs |-> None]
    /\ response = [r \in SharedReqs |-> [kind |-> "none"]]
    /\ failure = [r \in SharedReqs |-> "none"]
    /\ calls = [r \in SharedReqs |-> <<>>]
    /\ ledger = <<>>

NextShared ==
    \/ \E r \in SharedReqs : \E rec \in Records : store_record(r, rec)
    \/ \E r \in SharedReqs : store_record_impl_sleep(r)
    \/ \E r \in SharedReqs : \E key \in FreshKeys : store_record_impl_build(r, key)
    \/ \E r \in SharedReqs : \E resp \in BlockhashResponses : store_record_impl_blockhash(r, resp)
    \/ \E r \in SharedReqs : \E resp \in SendResponses : store_record_impl_send(r, resp)
    \/ \E r \in SharedReqs : \E id \in RetrieveIds : retrieve_record(r, id)
    \/ \E r \in SharedReqs : \E resp \in HealthResponses : health_check(r, resp)
    \/ \E r \in SharedReqs : \E resp \in SlotResponses : get_network_info(r, resp)

SpecShared == InitShared /\ [][NextShared]_vars

(***************************************************************************)
(* The gateway's requests on the worker threads of the tokio runtime.      *)
(* RpcClient is the blocking client: from the poll that follows the 2 s    *)
(* wait until the handler returns, a request keeps the worker thread that  *)
(* polls it, also while it waits for the ledger's answer.                  *)
(***************************************************************************)
WorkerReqs == 1..(NumWorkers + 1)

\* the requests inside get_latest_blockhash or send_and_confirm_transaction
InLedgerCall == { r \in DOMAIN pc : pc[r] \in {"get_latest_blockhash", "send"} }

\* a worker thread that is not inside a handler
FreeWorker == Cardinality(InLedgerCall) < NumWorkers

\* the first poll of store: up to the timer of the 2 s wait
PollStore(r, rec) == FreeWorker /\ Store(r, rec)

\* the poll after the wait: Keypair::new(), encoding, and into the ledger call
PollBuild(r, key) == FreeWorker /\ call_solana_program_build(r, key)

\* a serving gateway that loaded the payer's key pair and found the ledger
\* healthy at the first probe
InitWorkers ==
    /\ deployment = "gateway"
    /\ config = None
    /\ keyfile = FileOf(Some(KeypairBytes(PayerKey)))
    /\ initLog = <<"client", "program_id", "exists", "read_to_string", "parse_json",
                   "from_bytes">>
    /\ payer = PayerKey
    /\ program_id = ProgramId
    /\ connPc = "serving"
    /\ attempt = 1
    /\ connLog = <<"probe_ok">>
    /\ pc = [r \in WorkerReqs |-> "idle"]
    /\ op = [r \in WorkerReqs |-> "none"]
    /\ request = [r \in WorkerReqs |-> None]
    /\ proof_account = [r \in WorkerReqs |-> None]
    /\ data = [r \in WorkerReqs |-> None]
    /\ transaction = [r \in WorkerReqs |-> None]
    /\ signature = [r \in WorkerReqs |-> None]
    /\ response = [r \in WorkerReqs |-> [kind |-> "none"]]
    /\ failure = [r \in WorkerReqs |-> "none"]
    /\ calls = [r \in WorkerReqs |-> <<>>]
    /\ ledger = <<>>

NextWorkers ==
    \/ \E r \in WorkerReqs : \E rec \in Records : PollStore(r, rec)
    \/ \E r \in WorkerReqs : call_solana_program_sleep(r)
    \/ \E r \in WorkerReqs : \E key \in FreshKeys : PollBuild(r, key)
    \/ \E r \in WorkerReqs : \E resp \in BlockhashResponses : call_solana_program_blockhash(r, resp)
    \/ \E r \in WorkerReqs : \E resp \in SendResponses : call_solana_program_send(r, resp)

SpecWorkers == InitWorkers /\ [][NextWorkers]_vars

(***************************************************************************)
(* Construction properties, checked under SpecNew.                          *)
(***************************************************************************)
HoldsPayerKey(file) == file = FileOf(Some(KeypairBytes(PayerKey)))

PathConfigured == deployment = "gateway" \/ config.private_key_path # None

ProgramIdConfigured ==
    deployment = "gateway" \/ config.program_id = Some(ProgramIdText)

Constructed == connPc \notin {"start", "panicked", "config_error"}

\* C11: loading the payer never fails the caller.  Whenever construction gets
\* to load the payer (always in the gateway, with a valid program id in the
\* provider) it ends with a payer; the payer is the key pair of the file, and
\* nothing was generated, exactly when a path is configured and the file holds
\* a valid key pair; in every other case (no path, file missing, unreadable,
\* not a JSON byte array, bytes that are no key pair) the last step of
\* construction generated the payer.
C11_LenientLoadNeverFails ==
    (connPc # "start" /\ ProgramIdConfigured) =>
        /\ Constructed
        /\ payer \in KeySpace
        /\ IF PathConfigured /\ HoldsPayerKey(keyfile)
           THEN payer = PayerKey /\ Count(initLog, "generate") = 0
           ELSE /\ Count(initLog, "generate") = 1
                /\ initLog[Len(initLog)] = "generate"
                /\ Count(initLog, "from_bytes") = 1 =>
                       /\ keyfile.exists /\ keyfile.readable
                       /\ keyfile.json # None

\* the gateway serves with a generated payer after reading bytes that are no
\* key pair
C11_Witness ==
    /\ deployment = "gateway"
    /\ keyfile = FileOf(Some(<<1, 2, 3>>))
    /\ connPc = "serving"
    /\ Count(initLog, "generate") = 1

\* C12: the provider built from an explicit configuration is strict.  When
\* private_key_path is set and the file there is missing, unreadable or
\* malformed, SolanaProvider::new fails with a configuration error and no
\* provider with a generated payer is constructed.
C12_ExplicitConfigIsStrict ==
    ( /\ deployment = "provider"
      /\ connPc # "start"
      /\ config.private_key_path # None
      /\ ~HoldsPayerKey(keyfile) ) =>
        /\ connPc = "config_error"
        /\ payer = None
        /\ Count(initLog, "generate") = 0

\* C13: a provider configuration without a program id, or with one that
\* is no public key, fails at construction with a configuration error, after
\* creating the client and looking at the program id only: the credential
\* file is not touched, no ledger call is made, nothing is constructed, and
\* no store request ever starts without the parsed program id.
C13_ProgramIdRequired ==
    /\ ( /\ deployment = "provider"
         /\ connPc # "start"
         /\ ~ProgramIdConfigured ) =>
           /\ connPc = "config_error"
           /\ initLog = <<"client", "program_id">>
           /\ payer = None /\ program_id = None
           /\ connLog = <<>> /\ ledger = <<>>
           /\ \A g \in KeySpace :
                  new(config, keyfile, g).err \in
                      {"Program ID is required for Solana provider", "ParsePubkeyError"}
    /\ \A r \in Reqs : op[r] # "none" => (ProgramIdConfigured /\ program_id = ProgramId)

\* construction failed for a missing program id although the credential file
\* holds a valid key pair
C13_Witness ==
    /\ deployment = "provider"
    /\ connPc = "config_error"
    /\ config.program_id = None
    /\ config.private_key_path # None
    /\ HoldsPayerKey(keyfile)

(***************************************************************************)
(* Concurrency, checked under SpecWorkers.                                  *)
(***************************************************************************)
\* C14: a request waiting inside a ledger call never keeps another request
\* from making progress.  A store request whose 2 s wait is over can take its
\* next step (generate the storage key and encode) whatever the other
\* requests wait for.
C14_WaitingNeverBlocksOthers ==
    \A r \in WorkerReqs :
        pc[r] = "build" => ENABLED (\E key \in FreshKeys : PollBuild(r, key))

(***************************************************************************)
(* The provider's other operations, checked under Spec.                     *)
(***************************************************************************)
\* C15: a health_check call makes exactly one get_health call and nothing
\* else (no wait, no retry, nothing sent), returns Ok(true) when the probe
\* succeeded and Ok(false) when it failed, never an error, and leaves the
\* connection wait as initialize() ended it.
C15_HealthCheckIsOneProbe ==
    \A r \in Reqs :
        op[r] = "health_check" =>
            /\ pc[r] = "done"
            /\ calls[r] = <<"get_health">>
            /\ response[r] = [kind |-> "Ok", value |-> (failure[r] = "none")]
            /\ Submissions(r) = {}
            /\ connPc = "ok"
            /\ connLog[Len(connLog)] = "probe_ok"

\* a health_check whose probe failed
C15_Witness ==
    \E r \in Reqs :
        /\ op[r] = "health_check"
        /\ failure[r] = "ConnectionError"
        /\ response[r] = [kind |-> "Ok", value |-> FALSE]

(***************************************************************************)
(* The payload layout, checked under SpecCodec.                             *)
(***************************************************************************)
\* the u32 written little-endian at d[pos..pos+3]
U32At(d, pos) ==
    d[pos] + 256 * d[pos + 1] + 65536 * d[pos + 2] + 16777216 * d[pos + 3]

\* the length-prefixed string that starts at d[pos], and where it ends
StringAt(d, pos) ==
    IF pos + 3 > Len(d) THEN [ok |-> FALSE]
    ELSE LET n == U32At(d, pos)
         IN  IF pos + 3 + n > Len(d) THEN [ok |-> FALSE]
             ELSE [ok |-> TRUE, str |-> SubSeq(d, pos + 4, pos + 3 + n),
                   next |-> pos + 4 + n]

\* d is: the discriminant, then url, hash, created_at of rec, and nothing more
HasStoreProofLayout(d, rec) ==
    /\ Len(d) >= 1 /\ d[1] = 0
    /\ LET u == StringAt(d, 2)
       IN  /\ u.ok /\ u.str = rec.url
           /\ LET h == StringAt(d, u.next)
              IN  /\ h.ok /\ h.str = rec.hash
                  /\ LET c == StringAt(d, h.next)
                     IN  /\ c.ok /\ c.str = rec.created_at
                         /\ c.next = Len(d) + 1

\* C16: the payload of a store request is the StoreProof discriminant 0,
\* then url, hash and created_at in this order, each as a 4-byte little-endian
\* length and its bytes; encoding the record again gives the same bytes, and
\* a record with the same payload has the same url, hash and created_at.
C16_EncodingLayout ==
    \A r \in CodecReqs :
        data[r] # None =>
            /\ HasStoreProofLayout(data[r], request[r].record)
            /\ try_to_vec(StoreProof(request[r].record)) = [ok |-> TRUE, bytes |-> data[r]]
            /\ \A other \in CodecRecords :
                   try_to_vec(StoreProof(other)).bytes = data[r] =>
                       StoreProof(other) = StoreProof(request[r].record)

\* the payload of a record with an empty hash and a url of 258 bytes
C16_Witness ==
    \E r \in CodecReqs :
        /\ data[r] # None
        /\ request[r].record.url = LongString
        /\ request[r].record.hash = <<>>
        /\ request[r].record.created_at = <<98>>
        /\ SubSeq(data[r], 1, 5) = <<0, 2, 1, 0, 0>>

(***************************************************************************)
(* The store pipeline, checked under Spec.                                  *)
(***************************************************************************)
StoreSteps == <<"sleep", "keygen", "encode", "get_latest_blockhash", "sign", "send">>

IsPrefix(s, t) == Len(s) <= Len(t) /\ SubSeq(t, 1, Len(s)) = s

\* C17: what a store request has done so far is always a beginning of: the
\* 2 s wait, storage-key generation, payload encoding, blockhash fetch,
\* signing, submission.  So the wait precedes the blockhash fetch, the fetch
\* is the ledger call right before signing, and nothing lies between the
\* fetch and the submission but the signing.
C17_StepOrder ==
    \A r \in Reqs :
        IsStore(r) =>
            /\ IsPrefix(calls[r], StoreSteps)
            /\ IsPrefix(LedgerCalls(r), <<"get_latest_blockhash", "send">>)
            /\ pc[r] \in {"build", "get_latest_blockhash", "send"} =>
                   calls[r] # <<>> /\ calls[r][1] = "sleep"

\* a store request that went through all six steps and succeeded
C17_Witness ==
    \E r \in Reqs :
        /\ IsStore(r)
        /\ calls[r] = StoreSteps
        /\ StoreSucceeded(r)

(***************************************************************************)
(* The sleeps of the connection wait, checked under Spec.                   *)
(***************************************************************************)
\* the number of the probe made last in connLog[1..i]
ProbeNo(i) ==
    Len(SelectSeq(SubSeq(connLog, 1, i), LAMBDA e : e \in {"probe_ok", "probe_err"}))

\* C18: the connection wait (the provider's and the gateway's) sleeps right
\* after each failed probe that is not the MaxAttempts-th, and at no other
\* time: a wait whose first healthy probe is the k-th has slept k-1 times and
\* not after the healthy probe, a wait whose MaxAttempts probes all failed
\* has slept MaxAttempts-1 times and not after the last probe.
C18_SleepsBetweenFailures ==
    /\ \A i \in DOMAIN connLog :
           /\ connLog[i] = "sleep" =>
                  /\ i > 1 /\ connLog[i - 1] = "probe_err"
                  /\ ProbeNo(i) < MaxAttempts
           /\ (connLog[i] = "probe_err" /\ ProbeNo(i) < MaxAttempts) =>
                  IF i < Len(connLog) THEN connLog[i + 1] = "sleep"
                  ELSE connPc = "sleeping"
           /\ connLog[i] = "probe_ok" => i = Len(connLog)
    /\ Count(connLog, "probe_ok") > 0 => NumSleeps = NumProbes - 1
    /\ NumFailed = MaxAttempts =>
           /\ NumSleeps = MaxAttempts - 1
           /\ connLog[Len(connLog)] = "probe_err"

\* the gateway's startup loop after ten failed probes and nine sleeps
C18_Witness ==
    /\ deployment = "gateway"
    /\ NumFailed = MaxAttempts
    /\ NumSleeps = MaxAttempts - 1
    /\ connPc = "constructed"

(***************************************************************************)
(* Shared state, checked under SpecShared.                                  *)
(***************************************************************************)
\* requests r1 and r2 of the same operation got the same answers from the
\* ledger: the same error, or else the same signature or slot
SameLedgerAnswers(r1, r2) ==
    /\ failure[r1] = failure[r2]
    /\ (op[r1] = "store_record" /\ failure[r1] = "none") => signature[r1] = signature[r2]
    /\ (op[r1] = "get_network_info" /\ failure[r1] = "none") =>
           response[r1].value.block_height = response[r2].value.block_height

\* C19: no request changes what the provider shares between requests: payer,
\* program id and configuration (with the client's endpoint) stay as
\* constructed, whatever requests ran or are running.  And the outcome of a
\* request is determined by its own operation, argument and ledger answers:
\* two requests that agree on these have the same outcome, whichever ran
\* first and whatever else ran meanwhile.
C19_RequestsShareNothing ==
    /\ payer = PayerKey
    /\ program_id = ProgramId
    /\ config = SharedConfig
    /\ keyfile = FileOf(Some(KeypairBytes(PayerKey)))
    /\ connPc = "ok" /\ connLog = <<"probe_ok">>
    /\ \A r1 \in SharedReqs, r2 \in SharedReqs :
           ( /\ pc[r1] = "done" /\ pc[r2] = "done"
             /\ op[r1] = op[r2]
             /\ request[r1] = request[r2]
             /\ SameLedgerAnswers(r1, r2) ) =>
               response[r1] = response[r2]

\* two stores of the same record, confirmed with the same signature, the one
\* that started first submitted last
C19_Witness ==
    /\ Len(ledger) = 2
    /\ ledger[1].req = 2 /\ ledger[2].req = 1
    /\ op[1] = "store_record" /\ op[2] = "store_record"
    /\ request[1] = request[2]
    /\ pc[1] = "done" /\ pc[2] = "done"
    /\ failure[1] = "none" /\ failure[2] = "none"
    /\ signature[1] = signature[2]

(***************************************************************************)
(* Failures before the submission, checked under Spec.                      *)
(***************************************************************************)
HasOversizedField(rec) ==
    OversizedString \in {rec.url, rec.hash, rec.created_at}

\* C20: a store request that fails before the submission sends nothing.  A
\* record that cannot be encoded ends the request at the encoding, with the
\* encoding error: no blockhash fetched, nothing signed, nothing submitted.
\* A failed blockhash fetch ends it at the fetch, with that error: nothing
\* signed, nothing submitted.  In both cases the caller is told of a failure.
C20_EarlyFailureSendsNothing ==
    \A r \in Reqs :
        IsStore(r) =>
            /\ ( /\ request[r].record # None
                 /\ HasOversizedField(request[r].record)
                 /\ Count(calls[r], "encode") > 0 ) => failure[r] = "EncodingError"
            /\ failure[r] = "EncodingError" =>
                   /\ pc[r] = "done"
                   /\ calls[r] = <<"sleep", "keygen", "encode">>
            /\ failure[r] = "BlockhashError" =>
                   /\ pc[r] = "done"
                   /\ calls[r] = <<"sleep", "keygen", "encode", "get_latest_blockhash">>
            /\ failure[r] \in {"EncodingError", "BlockhashError"} =>
                   /\ transaction[r] = None
                   /\ Submissions(r) = {}
                   /\ ~StoreSucceeded(r)
                   /\ response[r] \in {[kind |-> "Err", err |-> failure[r]],
                                       Status("internal", "Failed to store on blockchain")}

\* a store_record whose record could not be encoded
C20_Witness ==
    \E r \in Reqs :
        /\ op[r] = "store_record"
        /\ request[r].record = OversizedRecord
        /\ failure[r] = "EncodingError"
        /\ pc[r] = "done"

(***************************************************************************)
(* The two store paths, checked under Spec.                                 *)
(***************************************************************************)
\* the transaction id a finished request r returned, if it returned one
ReturnedId(r) ==
    IF response[r].kind # "Ok" THEN None
    ELSE IF op[r] = "Store" THEN response[r].transaction_id
    ELSE response[r].value.transaction_id

\* what can be seen of the store of request r: where it is, the record, the
\* steps and ledger calls made, the storage key, the payload, the transaction
\* and what was submitted, and how it ended
Observed(r) ==
    [pc |-> pc[r],
     record |-> request[r].record,
     calls |-> calls[r],
     proof_account |-> proof_account[r],
     data |-> data[r],
     transaction |-> transaction[r],
     sent |-> SelectSeq(ledger, LAMBDA e : e.req = r),
     failure |-> failure[r],
     id |-> ReturnedId(r)]

\* one store path, as a function of what it is given: after the wait, the
\* generated storage key, the answer to get_latest_blockhash, the answer to
\* send_and_confirm.  It names neither the gateway nor the provider.
AfterWait(o) == [o EXCEPT !.pc = "build", !.calls = Append(@, "sleep")]

AfterKey(o, key) ==
    LET enc == try_to_vec(StoreProof(o.record))
        made == [o EXCEPT !.proof_account = key, !.calls = @ \o <<"keygen", "encode">>]
    IN  IF enc.ok
        THEN [made EXCEPT !.pc = "get_latest_blockhash", !.data = enc.bytes]
        ELSE [made EXCEPT !.pc = "done", !.failure = enc.err]

AfterBlockhash(o, resp) ==
    IF resp.ok
    THEN LET tx == new_signed_with_payer(
                       [program_id |-> program_id,
                        data |-> o.data,
                        accounts |-> <<AccountMeta(payer, TRUE, TRUE),
                                       AccountMeta(o.proof_account, TRUE, TRUE),
                                       AccountMeta(SystemProgramId, FALSE, FALSE)>>],
                       payer, <<payer, o.proof_account>>, resp.blockhash)
         IN  [o EXCEPT !.pc = IF tx.ok THEN "send" ELSE "panicked",
                       !.calls = @ \o <<"get_latest_blockhash", "sign">>,
                       !.transaction = tx]
    ELSE [o EXCEPT !.pc = "done", !.calls = Append(@, "get_latest_blockhash"),
                   !.failure = resp.err]

AfterSend(o, r, resp) ==
    LET sent == [o EXCEPT !.pc = "done", !.calls = Append(@, "send"),
                          !.sent = Append(@, [req |-> r, tx |-> o.transaction,
                                              outcome |-> resp.outcome,
                                              sig |-> IF resp.ok THEN resp.sig ELSE None])]
    IN  IF resp.ok THEN [sent EXCEPT !.id = TransactionId(resp.sig)]
        ELSE [sent EXCEPT !.failure = resp.err]

\* the last answer of the ledger to a submission is resp
LedgerAnswered(resp) ==
    /\ ledger # <<>>
    /\ ledger[Len(ledger)].outcome = resp.outcome
    /\ resp.ok => ledger[Len(ledger)].sig = resp.sig

\* C21: call_solana_program and store_record_impl are equivalent.  Every
\* step of either path, given the same record, payer, program id, storage
\* key and ledger answer, changes what can be seen of the request in the same
\* way: the same ledger calls in the same order, the same payload, account
\* list and signers, the same transaction submitted, and the same end, the
\* same transaction id or a failure at the same step.
C21_StorePathsEquivalent ==
    [][ \A r \in Reqs :
          /\ (call_solana_program_sleep(r) \/ store_record_impl_sleep(r)) =>
                 Observed(r)' = AfterWait(Observed(r))
          /\ \A key \in KeySpace :
                 (call_solana_program_build(r, key) \/ store_record_impl_build(r, key)) =>
                     Observed(r)' = AfterKey(Observed(r), key)
          /\ \A resp \in BlockhashResponses :
                 (call_solana_program_blockhash(r, resp)
                      \/ store_record_impl_blockhash(r, resp)) =>
                     Observed(r)' = AfterBlockhash(Observed(r), resp)
          /\ \A resp \in SendResponses :
                 ( /\ LedgerAnswered(resp)'
                   /\ (call_solana_program_send(r, resp) \/ store_record_impl_send(r, resp)) ) =>
                     Observed(r)' = AfterSend(Observed(r), r, resp)
      ]_vars

\* the provider's path submitted, and had confirmed, the very transaction
\* the gateway's code builds from the same key, payload and blockhash
C21_Witness ==
    \E r \in Reqs :
        /\ op[r] = "store_record"
        /\ pc[r] = "done"
        /\ failure[r] = "none"
        /\ Len(ledger) = 1
        /\ ledger[1].tx = GatewayTransaction(program_id, payer, proof_account[r], data[r],
                                             transaction[r].recent_blockhash)
        /\ ReturnedId(r) = TransactionId(ledger[1].sig)

====
